---- MODULE Spec2Model ----
(***************************************************************************)
(* A model of the CUDA device driver of pocl                               *)
(* (lib/CL/devices/cuda/pocl-cuda.c): the memory object manager, the       *)
(* kernel loader, the argument marshaler and launcher, and the linear and  *)
(* rectangular copy entry points.  The CUDA driver is modelled by what its *)
(* calls do to a driver-side heap and to byte arrays; every driver call    *)
(* may also fail for reasons of its own.  Each entry point is one action   *)
(* and leaves in `log` the driver calls and event updates it made, in      *)
(* program order.                                                          *)
(***************************************************************************)
EXTENDS Integers, Sequences, FiniteSets, TLC

VARIABLES
  arm,          \* the build: TRUE when compiled with __arm__ defined
  flags,        \* mem_obj->flags
  device_ptrs,  \* mem_obj->device_ptrs[]: one slot per dev_id
  mem_host_ptr, \* mem_obj->mem_host_ptr
  heap,         \* the driver's live allocations and registrations
  next_id,      \* the driver's next fresh address
  destroyed,    \* the memory object has been released
  hist,         \* one entry per pocl_cuda_alloc_mem_obj call made so far
  arg_info,     \* kernel->arg_info[0 .. num_args-1]
  num_locals,   \* kernel->num_locals
  kdata,        \* kernel->data: the cached CUfunction
  ptx_exists,   \* per device index: the kernel's .ptx file is on disk
  node,         \* the command node given to the last pocl_cuda_submit
  event,        \* node->event's status
  launch,       \* what the last cuLaunchKernel was given
  devmem,       \* the bytes of the device buffer, by offset from device_ptr
  hostmem,      \* the bytes of the host buffer a rectangular write reads
  hostout,      \* the bytes of the host buffer a rectangular read fills
  rect,         \* the origins, region and pitches of the rectangular transfers
  xfer,         \* the last transfer: which, where, and the host bytes it moved
  mapping,      \* what the last pocl_cuda_map_mem returned, and its staging buffer
  current,      \* the context current on the calling thread
  entry,        \* the entry point called last and the device it was called for
  stream,       \* the contexts whose default stream holds unfinished kernels
  threads,      \* the threads that are inside pocl_cuda_alloc_mem_obj
  log,          \* the driver calls and event updates of the last entry point
  ret,          \* what the last entry point returned
  aborted       \* POCL_ABORT has ended the process

memVars == <<arm, flags, device_ptrs, mem_host_ptr, heap, next_id, destroyed, hist, threads>>
kernVars == <<arg_info, num_locals, kdata, ptx_exists, node, event, launch>>
copyVars == <<devmem, hostmem, hostout, rect, xfer, mapping>>
ctxVars == <<current, entry, stream>>
vars == <<memVars, kernVars, copyVars, ctxVars, log, ret, aborted>>

(***************************************************************************)
(* Bounds of the model.                                                    *)
(***************************************************************************)
MaxDev == 2      \* devices are 0..MaxDev
MaxCalls == 3    \* pocl_cuda_alloc_mem_obj calls recorded in hist

(***************************************************************************)
(* Addresses.  An address is a record, so that where it came from stays    *)
(* visible: the application's host pointer, device memory, page-locked     *)
(* host memory, and the device-side mapping of either kind of host memory. *)
(***************************************************************************)
NULL == [kind |-> "null", id |-> 0]
HostPtr(n) == [kind |-> "host", id |-> n]
DevPtr(n) == [kind |-> "device", id |-> n]
PinnedPtr(n) == [kind |-> "pinned", id |-> n]
\* ((pocl_cuda_device_data_t *)device->data)->context
Context(device) == [kind |-> "context", id |-> device]
DevicePointerOf(h) ==
  [kind |-> IF h.kind = "host" THEN "mapped_host" ELSE "mapped_pinned", id |-> h.id]

CUDA_SUCCESS == "CUDA_SUCCESS"
CUDA_ERROR == "CUDA_ERROR"
CUDA_ERROR_INVALID_VALUE == "CUDA_ERROR_INVALID_VALUE"
CUDA_ERROR_HOST_MEMORY_ALREADY_REGISTERED == "CUDA_ERROR_HOST_MEMORY_ALREADY_REGISTERED"
CL_SUCCESS == "CL_SUCCESS"
CL_MEM_OBJECT_ALLOCATION_FAILURE == "CL_MEM_OBJECT_ALLOCATION_FAILURE"
CL_MEM_USE_HOST_PTR == "CL_MEM_USE_HOST_PTR"
CL_MEM_ALLOC_HOST_PTR == "CL_MEM_ALLOC_HOST_PTR"
CL_MEM_COPY_HOST_PTR == "CL_MEM_COPY_HOST_PTR"

Devices == 0..MaxDev
\* Devices 2k and 2k+1 are two logical devices of one global memory; the
\* region is named by the dev_id of the first of them.
global_mem_id(device) == (device \div 2) * 2

\* The flag sets clCreateBuffer accepts: use-host-pointer excludes the others.
Policies ==
  { {}, {CL_MEM_USE_HOST_PTR}, {CL_MEM_ALLOC_HOST_PTR}, {CL_MEM_COPY_HOST_PTR},
    {CL_MEM_ALLOC_HOST_PTR, CL_MEM_COPY_HOST_PTR} }

\* The host pointer the application gave with the buffer, if the flags ask for one.
AppHostPtr ==
  IF flags \cap {CL_MEM_USE_HOST_PTR, CL_MEM_COPY_HOST_PTR} # {} THEN HostPtr(1) ELSE NULL

\* No entry point was called.
NoEntry == [name |-> "none", device |-> 0]

Entry(name, device) == [name |-> name, device |-> device]

\* No cuLaunchKernel was issued.
NoLaunch ==
  [issued |-> FALSE, function |-> NULL, sharedMemBytes |-> 0, params |-> <<>>,
   sharedMemOffsets |-> {}]

(***************************************************************************)
(* The frame of one entry point: what it has logged and changed so far.    *)
(* `ret` is "RUNNING" until the entry point returns.                       *)
(***************************************************************************)
Frame0 ==
  [log |-> <<>>, aborted |-> FALSE, ret |-> "RUNNING", heap |-> heap,
   next_id |-> next_id, b |-> NULL, mem_host_ptr |-> mem_host_ptr,
   kdata |-> kdata, ptx_exists |-> ptx_exists, event |-> "queued",
   params |-> <<>>, sharedMemOffsets |-> {}, sharedMemBytes |-> 0,
   launch |-> NoLaunch, current |-> current, stream |-> stream]

\* A call, with the context that is current on the thread when it is made.
Call(st, api, arg, res) ==
  [st EXCEPT !.log = Append(@, [api |-> api, arg |-> arg, res |-> res,
                                ctx |-> st.current])]

\* `result` of the code: the result of the driver call made last.
Result(st) == st.log[Len(st.log)].res

Env(api, fails) == IF api \in fails THEN CUDA_ERROR ELSE CUDA_SUCCESS

CUDA_CHECK_noabort(st) == st

\* pocl_cuda_abort_on_error: a result other than CUDA_SUCCESS ends the process.
CUDA_CHECK(st) ==
  IF Result(st) # CUDA_SUCCESS
    THEN [Call(st, "POCL_ABORT", NULL, Result(st)) EXCEPT !.aborted = TRUE]
    ELSE st

(***************************************************************************)
(* The driver calls of the memory object manager.                          *)
(***************************************************************************)
cuCtxSetCurrent(st, device, fails) ==
  IF "cuCtxSetCurrent" \in fails
    THEN Call(st, "cuCtxSetCurrent", Context(device), CUDA_ERROR)
    ELSE [Call(st, "cuCtxSetCurrent", Context(device), CUDA_SUCCESS) EXCEPT
            !.current = Context(device)]

cuMemAlloc(st, fails) ==
  IF "cuMemAlloc" \in fails
    THEN Call(st, "cuMemAlloc", NULL, CUDA_ERROR)
    ELSE [Call(st, "cuMemAlloc", DevPtr(st.next_id), CUDA_SUCCESS) EXCEPT
            !.heap = @ \cup {[ptr |-> DevPtr(st.next_id), via |-> "cuMemAlloc"]},
            !.b = DevPtr(st.next_id),
            !.next_id = @ + 1]

cuMemHostRegister(st, host_ptr, fails) ==
  IF "cuMemHostRegister" \in fails
    THEN Call(st, "cuMemHostRegister", host_ptr, CUDA_ERROR)
    ELSE IF [ptr |-> host_ptr, via |-> "cuMemHostRegister"] \in st.heap
      THEN Call(st, "cuMemHostRegister", host_ptr, CUDA_ERROR_HOST_MEMORY_ALREADY_REGISTERED)
      ELSE [Call(st, "cuMemHostRegister", host_ptr, CUDA_SUCCESS) EXCEPT
              !.heap = @ \cup {[ptr |-> host_ptr, via |-> "cuMemHostRegister"]}]

cuMemHostAlloc(st, fails) ==
  IF "cuMemHostAlloc" \in fails
    THEN Call(st, "cuMemHostAlloc", NULL, CUDA_ERROR)
    ELSE [Call(st, "cuMemHostAlloc", PinnedPtr(st.next_id), CUDA_SUCCESS) EXCEPT
            !.heap = @ \cup {[ptr |-> PinnedPtr(st.next_id), via |-> "cuMemHostAlloc"]},
            !.mem_host_ptr = PinnedPtr(st.next_id),
            !.next_id = @ + 1]

cuMemHostGetDevicePointer(st, p, fails) ==
  IF "cuMemHostGetDevicePointer" \in fails
    THEN Call(st, "cuMemHostGetDevicePointer", p, CUDA_ERROR)
    ELSE IF \E e \in st.heap : e.ptr = p /\ e.via \in {"cuMemHostRegister", "cuMemHostAlloc"}
      THEN [Call(st, "cuMemHostGetDevicePointer", p, CUDA_SUCCESS) EXCEPT
              !.b = DevicePointerOf(p)]
      ELSE Call(st, "cuMemHostGetDevicePointer", p, CUDA_ERROR_INVALID_VALUE)

cuMemcpyHtoD_init(st, dst, src, fails) ==
  Call(st, "cuMemcpyHtoD", dst, Env("cuMemcpyHtoD", fails))

\* A free releases what it is given only if that came from the matching
\* allocation call; anything else is an invalid value to the driver.
DriverFree(st, api, via, p, fails) ==
  IF api \in fails
    THEN Call(st, api, p, CUDA_ERROR)
    ELSE IF [ptr |-> p, via |-> via] \in st.heap
      THEN [Call(st, api, p, CUDA_SUCCESS) EXCEPT
              !.heap = @ \ {[ptr |-> p, via |-> via]}]
      ELSE Call(st, api, p, CUDA_ERROR_INVALID_VALUE)

cuMemFreeHost(st, p, fails) == DriverFree(st, "cuMemFreeHost", "cuMemHostAlloc", p, fails)

cuMemFree(st, p, fails) == DriverFree(st, "cuMemFree", "cuMemAlloc", p, fails)

(***************************************************************************)
(* pocl_cuda_alloc_mem_obj                                                 *)
(***************************************************************************)
Live(st) == ~st.aborted /\ st.ret = "RUNNING"

AlreadyResident_never(device) == FALSE

\* The test that guards the allocation: the region's slot holds a pointer.
AlreadyResident(device) == device_ptrs[global_mem_id(device)].mem_ptr # NULL

\* CL_MEM_USE_HOST_PTR: device memory on ARM, else the host range is
\* page-locked and mapped; an already registered range is accepted.
AllocUseHostPtr(st, host_ptr, fails) ==
  IF arm
    THEN CUDA_CHECK(cuMemAlloc(st, fails))
    ELSE LET r == cuMemHostRegister(st, host_ptr, fails)
             c == IF Result(r) # CUDA_SUCCESS
                     /\ Result(r) # CUDA_ERROR_HOST_MEMORY_ALREADY_REGISTERED
                    THEN CUDA_CHECK(r)
                    ELSE r
         IN  IF c.aborted
               THEN c
               ELSE CUDA_CHECK(cuMemHostGetDevicePointer(c, host_ptr, fails))

\* CL_MEM_ALLOC_HOST_PTR: page-locked host memory and its device mapping.
AllocAllocHostPtr(st, fails) ==
  LET a == CUDA_CHECK(cuMemHostAlloc(st, fails))
  IN  IF a.aborted
        THEN a
        ELSE CUDA_CHECK(cuMemHostGetDevicePointer(a, a.mem_host_ptr, fails))

AllocDefault_abort(st, fails) == CUDA_CHECK(cuMemAlloc(st, fails))

\* The default path: a failed cuMemAlloc is returned to the caller.
AllocDefault(st, fails) ==
  LET a == cuMemAlloc(st, fails)
  IN  IF Result(a) # CUDA_SUCCESS
        THEN [a EXCEPT !.ret = CL_MEM_OBJECT_ALLOCATION_FAILURE]
        ELSE a

\* CL_MEM_COPY_HOST_PTR: the initial contents are copied to the device.
CopyHostPtr(st, host_ptr, fails) ==
  IF Live(st) /\ CL_MEM_COPY_HOST_PTR \in flags
    THEN CUDA_CHECK(cuMemcpyHtoD_init(st, st.b, host_ptr, fails))
    ELSE st

\* The body of the branch taken when the region is not resident, up to the
\* stores into the region's slot.
Provision(st, host_ptr, fails) ==
  CopyHostPtr(IF CL_MEM_USE_HOST_PTR \in flags
                THEN AllocUseHostPtr(st, host_ptr, fails)
                ELSE IF CL_MEM_ALLOC_HOST_PTR \in flags
                  THEN AllocAllocHostPtr(st, fails)
                  ELSE AllocDefault(st, fails),
              host_ptr, fails)

\* mem_obj->device_ptrs[device->global_mem_id] = {b, global_mem_id}
StoreRegionSlot(slots, gid, b) ==
  [slots EXCEPT ![gid] = [mem_ptr |-> b, global_mem_id |-> gid]]

\* mem_obj->device_ptrs[device->dev_id] = mem_obj->device_ptrs[global_mem_id]
CopyToDeviceSlot(slots, device) ==
  [slots EXCEPT ![device] = slots[global_mem_id(device)]]

Returned(st) ==
  IF st.aborted THEN "ABORTED" ELSE IF st.ret = "RUNNING" THEN CL_SUCCESS ELSE st.ret

\* The names of the calls of a log, in order.
Apis(l) == [i \in 1..Len(l) |-> l[i].api]

\* The driver calls the object's policy can reach in this build: the calls
\* whose failure the environment may decide.  (A failure of a call that is
\* never made changes nothing.)
AllocAPIs ==
  {"cuCtxSetCurrent"}
    \cup (IF CL_MEM_USE_HOST_PTR \in flags
           THEN IF arm THEN {"cuMemAlloc"}
                       ELSE {"cuMemHostRegister", "cuMemHostGetDevicePointer"}
           ELSE IF CL_MEM_ALLOC_HOST_PTR \in flags
             THEN {"cuMemHostAlloc", "cuMemHostGetDevicePointer"}
             ELSE {"cuMemAlloc"})
    \cup (IF CL_MEM_COPY_HOST_PTR \in flags THEN {"cuMemcpyHtoD"} ELSE {})

pocl_cuda_alloc_mem_obj(device, host_ptr, fails) ==
  LET gid == global_mem_id(device)
      s0 == cuCtxSetCurrent(Frame0, device, fails)
      resident == AlreadyResident(device)
      s1 == IF resident THEN s0 ELSE Provision(s0, host_ptr, fails)
      stored == IF Live(s1) /\ ~resident
                  THEN StoreRegionSlot(device_ptrs, gid, s1.b)
                  ELSE device_ptrs
      copied == IF Live(s1) THEN CopyToDeviceSlot(stored, device) ELSE stored
  IN  /\ ~aborted
      /\ ~destroyed
      /\ Len(hist) < MaxCalls
      /\ device_ptrs' = copied
      /\ mem_host_ptr' = s1.mem_host_ptr
      /\ heap' = s1.heap
      /\ next_id' = s1.next_id
      /\ log' = s1.log
      /\ ret' = Returned(s1)
      /\ aborted' = s1.aborted
      /\ hist' = Append(hist, [dev |-> device, ret |-> Returned(s1), apis |-> Apis(s1.log)])
      /\ current' = s1.current
      /\ entry' = Entry("pocl_cuda_alloc_mem_obj", device)
      /\ UNCHANGED <<arm, flags, destroyed, threads, kernVars, copyVars, stream>>

(***************************************************************************)
(* pocl_cuda_free                                                          *)
(***************************************************************************)
FreeAPIs ==
  {"cuCtxSetCurrent",
   IF CL_MEM_ALLOC_HOST_PTR \in flags THEN "cuMemFreeHost" ELSE "cuMemFree"}

pocl_cuda_free(device, fails) ==
  LET s0 == cuCtxSetCurrent(Frame0, device, fails)
      s1 == IF CL_MEM_ALLOC_HOST_PTR \in flags
              THEN [cuMemFreeHost(s0, mem_host_ptr, fails) EXCEPT !.mem_host_ptr = NULL]
              ELSE cuMemFree(s0, device_ptrs[device].mem_ptr, fails)
  IN  /\ ~aborted
      /\ ~destroyed
      /\ destroyed' = TRUE
      /\ mem_host_ptr' = s1.mem_host_ptr
      /\ heap' = s1.heap
      /\ log' = s1.log
      /\ ret' = "void"
      /\ aborted' = s1.aborted
      /\ current' = s1.current
      /\ entry' = Entry("pocl_cuda_free", device)
      /\ UNCHANGED <<arm, flags, device_ptrs, next_id, hist, threads, kernVars, copyVars,
                     stream>>

(***************************************************************************)
(* The memory object manager: one memory object, created with any of the   *)
(* accepted flag sets, made resident by any of the devices and released    *)
(* once.                                                                   *)
(***************************************************************************)
NoMapping ==
  [state |-> "none", ptr |-> NULL, staged |-> FALSE, offset |-> 0, size |-> 0,
   data |-> <<>>, dirty |-> FALSE, freed |-> {}]

NoXfer == [op |-> "none", offset |-> 0, cb |-> 0, data |-> <<>>, after_write |-> FALSE]

NoRect ==
  [region |-> <<0, 0, 0>>, buffer_origin |-> <<0, 0, 0>>, host_origin |-> <<0, 0, 0>>,
   buffer_row_pitch |-> 0, buffer_slice_pitch |-> 0,
   host_row_pitch |-> 0, host_slice_pitch |-> 0]

\* No transfer is in play.
CopyIdle ==
  /\ devmem = <<>>
  /\ hostmem = <<>>
  /\ hostout = <<>>
  /\ rect = NoRect
  /\ xfer = NoXfer
  /\ mapping = NoMapping

\* The thread that initialised the devices has the context of the last of
\* them current; no entry point has been called and no kernel launched.
CtxIdle ==
  /\ current = Context(MaxDev)
  /\ entry = NoEntry
  /\ stream = {}

\* The same, with kernels of earlier commands still running on every device.
CtxBusy ==
  /\ current = Context(MaxDev)
  /\ entry = NoEntry
  /\ stream = {Context(d) : d \in Devices}

\* No kernel is in play.
KernelIdle ==
  /\ arg_info = <<>>
  /\ num_locals = 0
  /\ kdata = NULL
  /\ ptx_exists = [d \in Devices |-> FALSE]
  /\ node = [type |-> "none", arguments |-> <<>>]
  /\ event = "queued"
  /\ launch = NoLaunch

\* The memory object as clCreateBuffer leaves it, before any device call.
MemIdle ==
  /\ device_ptrs = [d \in Devices |-> [mem_ptr |-> NULL, global_mem_id |-> 0]]
  /\ mem_host_ptr = IF CL_MEM_USE_HOST_PTR \in flags THEN HostPtr(1) ELSE NULL
  /\ heap = {}
  /\ next_id = 1
  /\ destroyed = FALSE
  /\ hist = <<>>
  /\ threads = <<>>

InitMem ==
  /\ arm \in BOOLEAN
  /\ flags \in Policies
  /\ MemIdle
  /\ KernelIdle
  /\ CopyIdle
  /\ CtxIdle
  /\ log = <<>>
  /\ ret = "none"
  /\ aborted = FALSE

AllocMemObj ==
  \E device \in Devices, fails \in SUBSET AllocAPIs :
    pocl_cuda_alloc_mem_obj(device, AppHostPtr, fails)

Free == \E device \in Devices, fails \in SUBSET FreeAPIs : pocl_cuda_free(device, fails)

NextMem == AllocMemObj \/ Free

SpecMem == InitMem /\ [][NextMem]_vars

(***************************************************************************)
(* Properties of the memory object manager (SpecMem).                      *)
(***************************************************************************)
DefaultPath == flags \cap {CL_MEM_USE_HOST_PTR, CL_MEM_ALLOC_HOST_PTR} = {}

ProvisionAPIs ==
  {"cuMemAlloc", "cuMemHostRegister", "cuMemHostAlloc", "cuMemHostGetDevicePointer",
   "cuMemcpyHtoD"}

\* The call made a driver allocation, registration or copy (or tried to).
Provisions(e) == \E i \in DOMAIN e.apis : e.apis[i] \in ProvisionAPIs

\* The call did nothing with the driver but make the context current.
OnlyCopiesPointer(e) == e.apis = <<"cuCtxSetCurrent">> /\ e.ret = CL_SUCCESS

RegionCalls(g) == {i \in DOMAIN hist : global_mem_id(hist[i].dev) = g}

Regions == {global_mem_id(d) : d \in Devices}

Min(S) == CHOOSE x \in S : \A y \in S : x <= y

\* C1 as stated: after any sequence of pocl_cuda_alloc_mem_obj calls by devices
\* sharing a region, the first call made the region's one allocation, every
\* later call only copied the pointer, and every calling device's slot equals
\* the region's slot.
C1_FirstCallAllocates ==
  ~aborted =>
    \A g \in Regions :
      RegionCalls(g) # {} =>
        LET first == Min(RegionCalls(g))
        IN  /\ hist[first].ret = CL_SUCCESS
            /\ Provisions(hist[first])
            /\ \A i \in RegionCalls(g) \ {first} : OnlyCopiesPointer(hist[i])
            /\ \A i \in RegionCalls(g) :
                 /\ device_ptrs[g].mem_ptr # NULL
                 /\ device_ptrs[hist[i].dev] = device_ptrs[g]

SucceededCalls(g) == {i \in RegionCalls(g) : hist[i].ret = CL_SUCCESS}

\* C1 as amended: once some call for the region has returned CL_SUCCESS,
\* exactly one call has obtained storage for the region, namely the first one
\* that returned CL_SUCCESS (the calls before it failed on the default path);
\* every later call only copies the pointer; and the slot of every device whose
\* call returned CL_SUCCESS equals the region's slot.
C1_OneAllocationPerRegion ==
  \A g \in Regions :
    SucceededCalls(g) # {} =>
      LET first == Min(SucceededCalls(g))
      IN  /\ Provisions(hist[first])
          /\ \A i \in RegionCalls(g) :
               /\ i < first => hist[i].ret = CL_MEM_OBJECT_ALLOCATION_FAILURE
               /\ i > first => OnlyCopiesPointer(hist[i])
          /\ Cardinality({i \in SucceededCalls(g) : Provisions(hist[i])}) = 1
          /\ device_ptrs[g].mem_ptr # NULL
          /\ \A i \in SucceededCalls(g) : device_ptrs[hist[i].dev] = device_ptrs[g]

\* A failed call, then the allocating call, then a call of the other device of
\* the region, which finds the region resident.
C1_Witness ==
  /\ Len(hist) = 3
  /\ hist[1].ret = CL_MEM_OBJECT_ALLOCATION_FAILURE
  /\ hist[2].ret = CL_SUCCESS /\ hist[2].dev = 0
  /\ hist[3].ret = CL_SUCCESS /\ hist[3].dev = 1

ReleaseAPIs == {"cuMemFree", "cuMemFreeHost", "cuMemHostUnregister"}

Releases(l) == SelectSeq(l, LAMBDA e : e.api \in ReleaseAPIs)

\* The release that matches how the storage behind device pointer p was obtained.
MatchingRelease(p) ==
  IF p.kind = "device" THEN [api |-> "cuMemFree", arg |-> p]
  ELSE IF p.kind = "mapped_pinned"
    THEN [api |-> "cuMemFreeHost", arg |-> PinnedPtr(p.id)]
    ELSE [api |-> "cuMemHostUnregister", arg |-> HostPtr(p.id)]

\* The device pocl_cuda_free was called for.
FreeingDevice == log[1].arg.id

\* C2: one pocl_cuda_free of a resident memory object releases the storage
\* obtained at allocation exactly once, through the release that matches how
\* it was obtained (cuMemFreeHost, the host-registration release, cuMemFree).
C2_ReleaseMatchesAllocation ==
  (destroyed /\ device_ptrs[FreeingDevice].mem_ptr # NULL) =>
    LET rel == Releases(log)
        want == MatchingRelease(device_ptrs[FreeingDevice].mem_ptr)
    IN  /\ Len(rel) = 1
        /\ rel[1].api = want.api
        /\ rel[1].arg = want.arg

SameRegionRetry ==
  /\ Len(hist) >= 1
  /\ Len(hist') = Len(hist) + 1
  /\ hist[Len(hist)].ret = CL_MEM_OBJECT_ALLOCATION_FAILURE
  /\ global_mem_id(hist'[Len(hist')].dev) = global_mem_id(hist[Len(hist)].dev)

\* C3: when cuMemAlloc fails on the default path, the call returns
\* CL_MEM_OBJECT_ALLOCATION_FAILURE without aborting and leaves every slot as
\* it was, the region not resident; the next call for the region calls
\* cuMemAlloc again.
C3_AllocationFailureIsReturned ==
  [][ /\ ( /\ Len(hist') = Len(hist) + 1
           /\ DefaultPath
           /\ \E i \in DOMAIN log' :
                log'[i].api = "cuMemAlloc" /\ log'[i].res # CUDA_SUCCESS )
         => /\ ret' = CL_MEM_OBJECT_ALLOCATION_FAILURE
            /\ ~aborted'
            /\ device_ptrs' = device_ptrs
            /\ device_ptrs'[global_mem_id(hist'[Len(hist')].dev)].mem_ptr = NULL
      /\ SameRegionRetry => \E i \in DOMAIN log' : log'[i].api = "cuMemAlloc"
    ]_vars

\* The allocation failed, and the next call for the region allocated.
C3_Witness ==
  /\ Len(hist) = 2
  /\ DefaultPath
  /\ hist[1].ret = CL_MEM_OBJECT_ALLOCATION_FAILURE
  /\ hist[2].ret = CL_SUCCESS
  /\ hist[2].dev = hist[1].dev
  /\ device_ptrs[hist[2].dev].mem_ptr.kind = "device"

IsDriverCall(e) == e.api # "POCL_ABORT"

Checked(e) ==
  \/ e.api \in {"cuMemHostGetDevicePointer", "cuMemHostAlloc", "cuMemcpyHtoD"}
  \/ e.api = "cuMemHostRegister" /\ e.res # CUDA_ERROR_HOST_MEMORY_ALREADY_REGISTERED
  \/ e.api = "cuMemAlloc" /\ ~DefaultPath

PtxFile(device) == [kind |-> "ptx", id |-> device]
Module(device) == [kind |-> "module", id |-> device]
\* The CUfunction resolved from the module loaded in `device`'s context.
Function(device) == [kind |-> "function", id |-> device]

Step(st, api, arg) == Call(st, api, arg, CUDA_SUCCESS)

Cached_never(st) == FALSE

GeneratePtx_always(st, device, fails) ==
  [Call(Call(st, "pocl_exists", PtxFile(device), "ignored"),
        "pocl_ptx_gen", PtxFile(device), CUDA_SUCCESS)
     EXCEPT !.ptx_exists[device] = TRUE]

\* if (kernel->data) return;
Cached(st) == st.kdata # NULL

\* if (!pocl_exists (ptx_filename)) ... pocl_ptx_gen ... POCL_ABORT
GeneratePtx(st, device, fails) ==
  LET e == Call(st, "pocl_exists", PtxFile(device),
                IF st.ptx_exists[device] THEN "exists" ELSE "absent")
  IN  IF st.ptx_exists[device]
        THEN e
        ELSE IF "pocl_ptx_gen" \in fails
          THEN [Call(Call(e, "pocl_ptx_gen", PtxFile(device), "failed"),
                     "POCL_ABORT", NULL, "failed")
                  EXCEPT !.aborted = TRUE]
          ELSE [Call(e, "pocl_ptx_gen", PtxFile(device), CUDA_SUCCESS)
                  EXCEPT !.ptx_exists[device] = TRUE]

cuModuleLoad(st, device, fails) ==
  Call(st, "cuModuleLoad", PtxFile(device),
       IF "cuModuleLoad" \in fails \/ ~st.ptx_exists[device]
         THEN CUDA_ERROR ELSE CUDA_SUCCESS)

cuModuleGetFunction(st, device, fails) ==
  Call(st, "cuModuleGetFunction", Module(device), Env("cuModuleGetFunction", fails))

\* kernel->data = function;
StoreFunction(st, device) ==
  [Step(st, "kernel->data", Function(device)) EXCEPT !.kdata = Function(device)]

load_or_generate_kernel(st, device, fails) ==
  LET s0 == cuCtxSetCurrent(st, device, fails)
      s1 == GeneratePtx(s0, device, fails)
      s2 == IF s1.aborted THEN s1 ELSE CUDA_CHECK(cuModuleLoad(s1, device, fails))
      s3 == IF s2.aborted THEN s2 ELSE CUDA_CHECK(cuModuleGetFunction(s2, device, fails))
  IN  IF Cached(s0) THEN s0
      ELSE IF s3.aborted THEN s3 ELSE StoreFunction(s3, device)

\* What an entry point of the kernel side leaves behind.
CommitKernel(st, n) ==
  /\ kdata' = st.kdata
  /\ ptx_exists' = st.ptx_exists
  /\ node' = n
  /\ event' = st.event
  /\ launch' = st.launch
  /\ log' = st.log
  /\ ret' = IF st.aborted THEN "ABORTED" ELSE "void"
  /\ aborted' = st.aborted
  /\ current' = st.current
  /\ stream' = st.stream
  /\ UNCHANGED <<memVars, copyVars, arg_info, num_locals>>

NoNode == [type |-> "none", arguments |-> <<>>]

pocl_cuda_compile_kernel(device, fails) ==
  /\ ~aborted
  /\ entry' = Entry("pocl_cuda_compile_kernel", device)
  /\ CommitKernel(load_or_generate_kernel(Frame0, device, fails), NoNode)

(***************************************************************************)
(* pocl_cuda_submit                                                        *)
(***************************************************************************)
POCL_ARG_TYPE_NONE == "POCL_ARG_TYPE_NONE"
POCL_ARG_TYPE_POINTER == "POCL_ARG_TYPE_POINTER"
POCL_ARG_TYPE_IMAGE == "POCL_ARG_TYPE_IMAGE"
POCL_ARG_TYPE_SAMPLER == "POCL_ARG_TYPE_SAMPLER"
CL_COMMAND_NDRANGE_KERNEL == "CL_COMMAND_NDRANGE_KERNEL"

Arg(i) == [kind |-> "arg", id |-> i]

UpdateEvent(st, status) ==
  [Step(st, "POCL_UPDATE_EVENT", [kind |-> status, id |-> 0]) EXCEPT !.event = status]

SetParam(st, i, p) ==
  [st EXCEPT !.params = [j \in 1..i |-> IF j = i THEN p ELSE st.params[j]]]

\* sharedMemOffsets[i] = sharedMemBytes; params[i] = sharedMemOffsets + i;
\* sharedMemBytes += arguments[i].size;
LocalArg_restart(st, i, size) ==
  [SetParam(st, i, [kind |-> "offset", v |-> i]) EXCEPT
     !.sharedMemOffsets = @ \cup {[index |-> i, offset |-> 0]},
     !.sharedMemBytes = @ + size]

LocalArg(st, i, size) ==
  [SetParam(st, i, [kind |-> "offset", v |-> i]) EXCEPT
     !.sharedMemOffsets = @ \cup {[index |-> i, offset |-> st.sharedMemBytes]},
     !.sharedMemBytes = @ + size]

\* A global or constant pointer: the address of the device's slot, or of a
\* null pointer when the argument is unbound.  On ARM a use-host-pointer
\* buffer is first copied to the device.
GlobalArg(st, i, arg, device, fails) ==
  IF arg.value
    THEN LET s == SetParam(st, i, [kind |-> "slot", v |-> device])
         IN  IF arm /\ CL_MEM_USE_HOST_PTR \in flags
               THEN Call(s, "cuMemcpyHtoD", device_ptrs[device].mem_ptr,
                         Env("cuMemcpyHtoD", fails))
               ELSE s
    ELSE SetParam(st, i, [kind |-> "null", v |-> 0])

\* A marshaler that passes an image or a sampler like a value.
MarshalArg_images(st, i, n, device, fails) ==
  LET s == Step(st, "marshal", Arg(i))
      type == arg_info[i].type
  IN  IF type = POCL_ARG_TYPE_POINTER
        THEN IF arg_info[i].is_local
               THEN LocalArg(s, i, n.arguments[i].size)
               ELSE GlobalArg(s, i, n.arguments[i], device, fails)
        ELSE SetParam(s, i, [kind |-> "value", v |-> i])

\* One turn of the loop over kernel->num_args.
MarshalArg(st, i, n, device, fails) ==
  LET s == Step(st, "marshal", Arg(i))
      type == arg_info[i].type
  IN  IF type = POCL_ARG_TYPE_NONE
        THEN SetParam(s, i, [kind |-> "value", v |-> i])
      ELSE IF type = POCL_ARG_TYPE_POINTER
        THEN IF arg_info[i].is_local
               THEN LocalArg(s, i, n.arguments[i].size)
               ELSE GlobalArg(s, i, n.arguments[i], device, fails)
      ELSE [Call(s, "POCL_ABORT", NULL, "Unhandled argument type for CUDA")
              EXCEPT !.aborted = TRUE]

RECURSIVE MarshalArgs(_, _, _, _, _)
MarshalArgs(st, i, n, device, fails) ==
  IF i > Len(arg_info) \/ st.aborted
    THEN st
    ELSE MarshalArgs(MarshalArg(st, i, n, device, fails), i + 1, n, device, fails)

\* The loop over kernel->num_locals: the automatic local allocations.
RECURSIVE MarshalLocals(_, _, _)
MarshalLocals(st, j, n) ==
  IF j > num_locals \/ st.aborted
    THEN st
    ELSE MarshalLocals(
           LocalArg(Step(st, "marshal", Arg(Len(arg_info) + j)),
                    Len(arg_info) + j, n.arguments[Len(arg_info) + j].size),
           j + 1, n)

cuLaunchKernel(st, fails) ==
  [Call(st, "cuLaunchKernel", st.kdata, Env("cuLaunchKernel", fails)) EXCEPT
     !.launch = [issued |-> TRUE, function |-> st.kdata,
                 sharedMemBytes |-> st.sharedMemBytes, params |-> st.params,
                 sharedMemOffsets |-> st.sharedMemOffsets],
     !.stream = IF "cuLaunchKernel" \in fails THEN @ ELSE @ \cup {st.current}]

\* On ARM: copy every bound use-host-pointer buffer back after the launch.
RECURSIVE CopyBack(_, _, _, _, _)
CopyBack(st, i, n, device, fails) ==
  IF i > Len(arg_info)
    THEN st
    ELSE CopyBack(
           IF /\ arm
              /\ arg_info[i].type = POCL_ARG_TYPE_POINTER
              /\ ~arg_info[i].is_local
              /\ n.arguments[i].value
              /\ CL_MEM_USE_HOST_PTR \in flags
             THEN Call(st, "cuMemcpyDtoH", device_ptrs[device].mem_ptr,
                       Env("cuMemcpyDtoH", fails))
             ELSE st,
           i + 1, n, device, fails)

LaunchAndComplete_early(st, n, device, fails) ==
  LET s1 == UpdateEvent(st, "running")
      s2 == UpdateEvent(s1, "complete")
      s3 == CUDA_CHECK(cuLaunchKernel(s2, fails))
  IN  IF s3.aborted THEN s3
      ELSE Step(CopyBack(s3, 1, n, device, fails), "pocl_ndrange_node_cleanup", NULL)

\* POCL_UPDATE_EVENT_RUNNING; cuLaunchKernel; (ARM copies;) cleanup;
\* POCL_UPDATE_EVENT_COMPLETE
LaunchAndComplete(st, n, device, fails) ==
  LET s1 == UpdateEvent(st, "running")
      s2 == CUDA_CHECK(cuLaunchKernel(s1, fails))
  IN  IF s2.aborted THEN s2
      ELSE UpdateEvent(
             Step(CopyBack(s2, 1, n, device, fails), "pocl_ndrange_node_cleanup", NULL),
             "complete")

pocl_cuda_submit(n, device, fails) ==
  LET s0 == UpdateEvent(cuCtxSetCurrent(Frame0, device, fails), "submitted")
      s1 == load_or_generate_kernel(s0, device, fails)
      s2 == IF s1.aborted THEN s1 ELSE MarshalArgs(s1, 1, n, device, fails)
      s3 == IF s2.aborted THEN s2 ELSE MarshalLocals(s2, 1, n)
      s4 == IF s3.aborted THEN s3 ELSE LaunchAndComplete(s3, n, device, fails)
  IN  /\ ~aborted
      /\ entry' = Entry("pocl_cuda_submit", device)
      /\ IF n.type # CL_COMMAND_NDRANGE_KERNEL
           THEN CommitKernel(Step(s0, "pocl_exec_command", NULL), n)
           ELSE CommitKernel(s4, n)

(***************************************************************************)
(* Kernels, command nodes and the two kernel-side specifications.          *)
(***************************************************************************)
MaxArgs == 2     \* kernel->num_args is 0..MaxArgs
MaxLocals == 1   \* kernel->num_locals is 0..MaxLocals
MaxArgSize == 2  \* a local argument's size is 1..MaxArgSize

ArgInfos ==
  {[type |-> POCL_ARG_TYPE_NONE, is_local |-> FALSE],
   [type |-> POCL_ARG_TYPE_POINTER, is_local |-> TRUE],
   [type |-> POCL_ARG_TYPE_POINTER, is_local |-> FALSE],
   [type |-> POCL_ARG_TYPE_IMAGE, is_local |-> FALSE],
   [type |-> POCL_ARG_TYPE_SAMPLER, is_local |-> FALSE]}

\* The argument lists of at most n arguments.
Signatures(n) == UNION {[1..k -> ArgInfos] : k \in 0..n}

\* What clSetKernelArg can have bound to an argument of this kind: a local
\* argument has a size of at least one byte and no value; a global pointer
\* is bound to the memory object or is null.
ArgChoices(info) ==
  IF info.type = POCL_ARG_TYPE_POINTER /\ info.is_local
    THEN {[value |-> FALSE, size |-> sz] : sz \in 1..MaxArgSize}
  ELSE IF info.type = POCL_ARG_TYPE_POINTER
    THEN {[value |-> v, size |-> 1] : v \in BOOLEAN}
  ELSE {[value |-> TRUE, size |-> 1]}

LocalInfo == [type |-> POCL_ARG_TYPE_POINTER, is_local |-> TRUE]

\* kernel->arg_info followed by one entry per automatic local.
AllInfos == arg_info \o [j \in 1..num_locals |-> LocalInfo]

RECURSIVE ArgLists(_)
ArgLists(infos) ==
  IF infos = <<>>
    THEN {<<>>}
    ELSE {<<a>> \o rest : a \in ArgChoices(Head(infos)), rest \in ArgLists(Tail(infos))}

\* The command nodes the scheduler can hand to submit for this kernel.
Nodes ==
  {[type |-> CL_COMMAND_NDRANGE_KERNEL, arguments |-> a] : a \in ArgLists(AllInfos)}
    \cup {[type |-> "CL_COMMAND_READ_BUFFER", arguments |-> <<>>]}

\* The calls of the kernel side whose outcome the environment decides (the
\* explicit copies exist only in the ARM build).
KernelAPIs ==
  {"cuCtxSetCurrent", "pocl_ptx_gen", "cuModuleLoad", "cuModuleGetFunction",
   "cuLaunchKernel"}
    \cup (IF arm THEN {"cuMemcpyHtoD", "cuMemcpyDtoH"} ELSE {})

\* No call fails, or one does.
OneOf(S) == {{}} \cup {{a} : a \in S}

Compile == \E device \in Devices, fails \in OneOf(KernelAPIs) :
  pocl_cuda_compile_kernel(device, fails)

Submit == \E n \in Nodes, device \in Devices, fails \in OneOf(KernelAPIs) :
  pocl_cuda_submit(n, device, fails)

\* One kernel, not yet loaded.  Its artifacts are on disk from an earlier run
\* of the program, or they are not (the kernel is loaded once, so one device's
\* artifact is all a run ever looks at).
InitKernelWith(sigs, locals) ==
  /\ arm \in BOOLEAN
  /\ flags = {CL_MEM_USE_HOST_PTR}
  /\ MemIdle
  /\ arg_info \in sigs
  /\ num_locals \in locals
  /\ kdata = NULL
  /\ ptx_exists \in {[d \in Devices |-> on_disk] : on_disk \in BOOLEAN}
  /\ event = "queued"
  /\ launch = NoLaunch
  /\ CopyIdle
  /\ log = <<>>
  /\ ret = "none"
  /\ aborted = FALSE

\* The loader and the command life cycle: kernels of at most one argument,
\* compiled and submitted any number of times on any device.
InitKernel == InitKernelWith(Signatures(1), {0}) /\ node = NoNode /\ CtxBusy

NextKernel == Compile \/ Submit

SpecKernel == InitKernel /\ [][NextKernel]_vars

\* The marshaler: every kernel signature within the bounds, and one queued
\* kernel-launch command with any argument sizes, submitted once.
InitMarshal ==
  /\ InitKernelWith(Signatures(MaxArgs), 0..MaxLocals)
  /\ node \in {n \in Nodes : n.type = CL_COMMAND_NDRANGE_KERNEL}
  /\ CtxBusy

SubmitQueued ==
  /\ event = "queued"
  /\ \E device \in Devices, fails \in OneOf({"cuLaunchKernel"}) :
       pocl_cuda_submit(node, device, fails)

NextMarshal == SubmitQueued

SpecMarshal == InitMarshal /\ [][NextMarshal]_vars

(***************************************************************************)
(* Properties of the kernel loader and the launcher (SpecKernel,           *)
(* SpecMarshal).                                                           *)
(***************************************************************************)
\* The positions in l of the entries that satisfy Test.
Positions(l, Test(_)) == {i \in DOMAIN l : Test(l[i])}

IsEvent(e) == e.api = "POCL_UPDATE_EVENT"
IsLoadStep(e) ==
  e.api \in {"pocl_exists", "pocl_ptx_gen", "cuModuleLoad", "cuModuleGetFunction",
             "kernel->data"}
IsMarshal(e) == e.api = "marshal"
IsLaunch(e) == e.api = "cuLaunchKernel"
IsCleanup(e) == e.api = "pocl_ndrange_node_cleanup"
IsAbort(e) == e.api = "POCL_ABORT"

\* Every position of S comes before every position of T.
Before(S, T) == \A i \in S, j \in T : i < j

EventStatuses(l) == [i \in DOMAIN SelectSeq(l, IsEvent) |-> SelectSeq(l, IsEvent)[i].arg.kind]

EventAt(l, status) == {i \in Positions(l, IsEvent) : l[i].arg.kind = status}

\* C5: a kernel-launch command that meets no fatal error has its event set to
\* submitted, running and complete, in that order and once each: submitted
\* before the kernel is loaded or any argument is marshaled, running before
\* cuLaunchKernel, complete after cuLaunchKernel has returned and the node has
\* been cleaned up.
C5_EventLifecycle ==
  (node.type = CL_COMMAND_NDRANGE_KERNEL /\ ~aborted) =>
    /\ EventStatuses(log) = <<"submitted", "running", "complete">>
    /\ event = "complete"
    /\ Before(EventAt(log, "submitted"), Positions(log, IsLoadStep))
    /\ Before(EventAt(log, "submitted"), Positions(log, IsMarshal))
    /\ Before(Positions(log, IsMarshal), EventAt(log, "running"))
    /\ Cardinality(Positions(log, IsLaunch)) = 1
    /\ Cardinality(Positions(log, IsCleanup)) = 1
    /\ Before(EventAt(log, "running"), Positions(log, IsLaunch))
    /\ Before(Positions(log, IsLaunch), Positions(log, IsCleanup))
    /\ Before(Positions(log, IsCleanup), EventAt(log, "complete"))
    /\ EventAt(log, "complete") = {Len(log)}

\* A launch that loaded the kernel and marshaled an argument on the way.
C5_Witness ==
  /\ node.type = CL_COMMAND_NDRANGE_KERNEL
  /\ ~aborted
  /\ event = "complete"
  /\ Positions(log, IsMarshal) # {}
  /\ Positions(log, IsLoadStep) # {}

\* C6: once kernel->data is set, a compile-kernel or submit makes no existence
\* check, code generation, module load or function resolution, and
\* kernel->data keeps its value.
C6_CachedFunctionIsKept ==
  [][kdata # NULL => (kdata' = kdata /\ Positions(log', IsLoadStep) = {})]_vars

\* A launch of the kernel that used the function cached earlier.
C6_Witness ==
  /\ kdata # NULL
  /\ launch.issued
  /\ ~aborted
  /\ Positions(log, IsLoadStep) = {}

\* C18: every launch of the kernel is given a function that was loaded for
\* the device the launch is submitted on, never one cached by a launch or a
\* compile-kernel on another device.
C18_FunctionOfLaunchingDevice ==
  \A i \in Positions(log, IsLaunch) :
    entry.name = "pocl_cuda_submit" => log[i].arg = Function(entry.device)

\* What a first load on `device` does when nothing fails.
LoadSteps(device) ==
  <<"pocl_exists">>
    \o (IF ptx_exists[device] THEN <<>> ELSE <<"pocl_ptx_gen">>)
    \o <<"cuModuleLoad", "cuModuleGetFunction", "kernel->data">>

IsPrefix(a, b) == Len(a) <= Len(b) /\ \A i \in DOMAIN a : a[i] = b[i]

LoadFailed(l) ==
  \E i \in Positions(l, IsLoadStep) : l[i].res \in {"failed", CUDA_ERROR}

\* C7: on the first load of a kernel, pocl_ptx_gen is called exactly when the
\* .ptx file is not on disk; the steps are existence check, (generation,)
\* cuModuleLoad, cuModuleGetFunction, then the store into kernel->data; a
\* failure of generation, load or resolution aborts with kernel->data unset.
C7_FirstLoad ==
  [][ (kdata = NULL /\ ~aborted /\ node'.type \in {"none", CL_COMMAND_NDRANGE_KERNEL}) =>
        LET device == log'[1].arg.id
            steps == Apis(SelectSeq(log', IsLoadStep))
        IN  /\ steps # <<>>
            /\ steps[1] = "pocl_exists"
            /\ IsPrefix(steps, LoadSteps(device))
            /\ ("pocl_ptx_gen" \in {steps[i] : i \in DOMAIN steps}) <=> ~ptx_exists[device]
            /\ IF LoadFailed(log')
                 THEN /\ aborted'
                      /\ kdata' = NULL
                      /\ SelectSeq(log', IsLoadStep)[Len(steps)].res # CUDA_SUCCESS
                      /\ log'[Len(log')].api = "POCL_ABORT"
                 ELSE /\ steps = LoadSteps(device)
                      /\ kdata' = Function(device)
    ]_vars

\* A first load that had to generate the .ptx file and cached the function.
C7_Witness ==
  /\ kdata # NULL
  /\ ~aborted
  /\ \E i \in DOMAIN log : log[i].api = "pocl_ptx_gen" /\ log[i].res = CUDA_SUCCESS
  /\ \E i \in DOMAIN log : log[i].api = "kernel->data"

\* The positions of the local arguments, explicit and automatic.
LocalIndexes ==
  {i \in DOMAIN AllInfos : AllInfos[i].type = POCL_ARG_TYPE_POINTER /\ AllInfos[i].is_local}

OffsetOf(i) == (CHOOSE r \in launch.sharedMemOffsets : r.index = i).offset

SizeOf(i) == node.arguments[i].size

RECURSIVE SumSizes(_)
SumSizes(S) ==
  IF S = {} THEN 0 ELSE LET i == CHOOSE x \in S : TRUE IN SizeOf(i) + SumSizes(S \ {i})

\* C8: for every launch, the offsets given to the local arguments (explicit
\* ones in argument order, then the automatic ones) start at 0, increase
\* strictly, give ranges [offset, offset + size) that do not overlap, and
\* the dynamic shared-memory size of the launch is the sum of their sizes.
C8_SharedMemOffsets ==
  launch.issued =>
    /\ {r.index : r \in launch.sharedMemOffsets} = LocalIndexes
    /\ Cardinality(launch.sharedMemOffsets) = Cardinality(LocalIndexes)
    /\ LocalIndexes # {} => OffsetOf(Min(LocalIndexes)) = 0
    /\ \A i, j \in LocalIndexes :
         i < j => /\ OffsetOf(i) < OffsetOf(j)
                  /\ OffsetOf(i) + SizeOf(i) <= OffsetOf(j)
    /\ \A i \in LocalIndexes : launch.params[i] = [kind |-> "offset", v |-> i]
    /\ launch.sharedMemBytes = SumSizes(LocalIndexes)

\* A launch with two explicit local arguments and an automatic one.
C8_Witness ==
  /\ launch.issued
  /\ Len(arg_info) = 2
  /\ num_locals = 1
  /\ Cardinality(LocalIndexes) = 3
  /\ launch.sharedMemBytes > 3

\* ---------------------------------------------------------------------
\* The copy engine: linear transfers between host and device.

\* The size in bytes of the device buffer of the linear transfers.
BufSize == 4

\* The values a byte takes in the linear transfers.
Bytes == {0, 1}

DevAddr(a) == [kind |-> "devaddr", id |-> a]

\* memcpy into mem: the bytes land at addr, addr + 1, ...; the rest stays.
CopyIn(mem, addr, bytes) ==
  [a \in DOMAIN mem |->
     IF addr <= a /\ a < addr + Len(bytes) THEN bytes[a - addr + 1] ELSE mem[a]]

\* memcpy out of mem: the cb bytes at addr, addr + 1, ...
CopyOut(mem, addr, cb) == [i \in 1..cb |-> mem[addr + i - 1]]

\* A linear transfer that starts at the buffer's first byte whatever the offset.
LinearAddr_nooffset(device_ptr, offset) == device_ptr

\* The device address of a linear transfer.
LinearAddr(device_ptr, offset) == device_ptr + offset

\* What has to hold of a linear transfer for the driver to be given it:
\* the range lies in the buffer and is not empty.
InBuffer(offset, cb) == offset >= 0 /\ cb >= 1 /\ offset + cb <= BufSize

cuMemcpyHtoD(st, dst, fails) == Call(st, "cuMemcpyHtoD", DevAddr(dst), Env("cuMemcpyHtoD", fails))

cuMemcpyDtoH(st, src, fails) == Call(st, "cuMemcpyDtoH", DevAddr(src), Env("cuMemcpyDtoH", fails))

\* The frame a transfer handler leaves, committed to the state.
CommitCopy(st) ==
  /\ log' = st.log
  /\ aborted' = st.aborted
  /\ ret' = IF st.aborted THEN "aborted" ELSE "void"
  /\ current' = st.current
  /\ UNCHANGED <<memVars, kernVars, stream>>

pocl_cuda_write(data, host_ptr, device_ptr, offset, cb, fails) ==
  LET dst == LinearAddr(device_ptr, offset)
      st  == CUDA_CHECK(cuMemcpyHtoD(Frame0, dst, fails))
  IN  /\ ~aborted
      /\ devmem' = IF Result(st) = CUDA_SUCCESS
                   THEN CopyIn(devmem, dst, SubSeq(host_ptr, 1, cb))
                   ELSE devmem
      /\ xfer' = [op |-> "write", offset |-> offset, cb |-> cb, data |-> host_ptr,
                  after_write |-> FALSE]
      /\ entry' = Entry("pocl_cuda_write", data)
      /\ CommitCopy(st)
      /\ UNCHANGED <<hostmem, hostout, rect, mapping>>

pocl_cuda_read(data, device_ptr, offset, cb, fails) ==
  LET src == LinearAddr(device_ptr, offset)
      st  == CUDA_CHECK(cuMemcpyDtoH(Frame0, src, fails))
  IN  /\ ~aborted
      /\ xfer' = [op |-> "read", offset |-> offset, cb |-> cb,
                  data |-> IF Result(st) = CUDA_SUCCESS
                           THEN CopyOut(devmem, src, cb)
                           ELSE <<>>,
                  after_write |-> /\ xfer.op = "write"
                                  /\ xfer.offset = offset
                                  /\ xfer.cb = cb]
      /\ entry' = Entry("pocl_cuda_read", data)
      /\ CommitCopy(st)
      /\ UNCHANGED <<devmem, hostmem, hostout, rect, mapping>>

Ranges == {r \in (0..(BufSize - 1)) \X (1..BufSize) : InBuffer(r[1], r[2])}

Write == \E r \in Ranges, fails \in OneOf({"cuMemcpyHtoD"}) :
           \E host_ptr \in [1..r[2] -> Bytes] :
             pocl_cuda_write(0, host_ptr, 0, r[1], r[2], fails)

Read == \E r \in Ranges, fails \in OneOf({"cuMemcpyDtoH"}) :
          pocl_cuda_read(0, 0, r[1], r[2], fails)

\* A device buffer of BufSize bytes holding anything; nothing else in play.
InitCopy ==
  /\ arm \in BOOLEAN
  /\ flags = {}
  /\ MemIdle
  /\ KernelIdle
  /\ devmem \in [0..(BufSize - 1) -> Bytes]
  /\ hostmem = <<>>
  /\ hostout = <<>>
  /\ rect = NoRect
  /\ xfer = NoXfer
  /\ mapping = NoMapping
  /\ CtxIdle
  /\ log = <<>>
  /\ ret = "none"
  /\ aborted = FALSE

NextCopy == Write \/ Read

SpecCopy == InitCopy /\ [][NextCopy]_vars

InRange(a, offset, cb) == offset <= a /\ a < offset + cb

\* C9: a write of N bytes at offset O that returns leaves exactly those bytes
\* at [O, O+N) of the buffer and every other byte of the buffer as it was,
\* and a read of the same range that directly follows it returns those bytes.
C9_WriteThenReadRoundTrip ==
  [][~aborted' =>
       /\ xfer'.op = "write" =>
            /\ CopyOut(devmem', xfer'.offset, xfer'.cb) = xfer'.data
            /\ \A a \in DOMAIN devmem :
                 ~InRange(a, xfer'.offset, xfer'.cb) => devmem'[a] = devmem[a]
       /\ xfer'.op = "read" => devmem' = devmem
       /\ (xfer'.op = "read" /\ xfer'.after_write) => xfer'.data = xfer.data]_vars

\* A read that returned, of a range written just before it, with buffer
\* bytes on both sides of the range and a byte of each value in it.
C9_Witness ==
  /\ ~aborted
  /\ xfer.op = "read"
  /\ xfer.after_write
  /\ xfer.offset >= 1
  /\ xfer.offset + xfer.cb < BufSize
  /\ xfer.data = <<1, 0>>

\* The calls of the log that the CUDA driver carries out in the context
\* that is current on the calling thread.
CudaAPIs ==
  {"cuMemAlloc", "cuMemHostRegister", "cuMemHostGetDevicePointer", "cuMemHostAlloc",
   "cuMemFree", "cuMemFreeHost", "cuMemcpyHtoD", "cuMemcpyDtoH", "cuMemcpyDtoD",
   "cuMemcpy3D", "cuModuleLoad", "cuModuleGetFunction", "cuLaunchKernel",
   "cuStreamSynchronize"}

\* C15: every driver call of an entry point is made while the context of the
\* entry point's device is current on the calling thread, whatever context
\* was current when the entry point was called.
C15_DriverCallsInDeviceContext ==
  \A i \in DOMAIN log :
    log[i].api \in CudaAPIs => log[i].ctx = Context(entry.device)

\* ---------------------------------------------------------------------
\* The copy engine: rectangular transfers between host and device.

\* The largest width in bytes, height in rows and depth in slices of a region.
MaxRegion == 2

\* The origins tried along each axis, and the bytes a row pitch and a slice
\* pitch are given beyond the packed minimum.
Origins == {0, 1}

Pads == {0, 1}

Top(S) == CHOOSE m \in S : \A n \in S : n <= m

MaxRowPitch == MaxRegion + Top(Pads)

MaxSlicePitch == MaxRowPitch * MaxRegion + Top(Pads)

\* Bytes enough for the furthest byte any of the rectangles addresses.
RectBytes == (Top(Origins) + MaxRegion - 1) * (MaxSlicePitch + MaxRowPitch + 1) + 1

\* C has the axes at [0], [1], [2].
X(v) == v[1]

Y(v) == v[2]

Z(v) == v[3]

\* The coordinates of the bytes of a WidthInBytes x Height x Depth box.
Box(w, h, d) == (0..(w - 1)) \X (0..(h - 1)) \X (0..(d - 1))

\* A division of the code: the quotient, and 0 where a build that does not
\* trap divides by zero.
Quotient(a, b) == IF b = 0 THEN 0 ELSE a \div b

\* The descriptor pocl_cuda_read_rect hands to the driver.
read_rect_params(host_ptr, device_ptr, r) ==
  [WidthInBytes |-> X(r.region), Height |-> Y(r.region), Depth |-> Z(r.region),
   dstMemoryType |-> "CU_MEMORYTYPE_HOST", dstBase |-> host_ptr,
   dstXInBytes |-> X(r.host_origin), dstY |-> Y(r.host_origin), dstZ |-> Z(r.host_origin),
   dstPitch |-> r.host_row_pitch,
   dstHeight |-> Quotient(r.host_slice_pitch, r.host_row_pitch),
   srcMemoryType |-> "CU_MEMORYTYPE_DEVICE", srcBase |-> device_ptr,
   srcXInBytes |-> X(r.buffer_origin), srcY |-> Y(r.buffer_origin), srcZ |-> Z(r.buffer_origin),
   srcPitch |-> r.buffer_row_pitch,
   srcHeight |-> Quotient(r.buffer_slice_pitch, r.buffer_row_pitch)]

\* The descriptor pocl_cuda_write_rect hands to the driver.
write_rect_params(host_ptr, device_ptr, r) ==
  [WidthInBytes |-> X(r.region), Height |-> Y(r.region), Depth |-> Z(r.region),
   srcMemoryType |-> "CU_MEMORYTYPE_HOST", srcBase |-> host_ptr,
   srcXInBytes |-> X(r.host_origin), srcY |-> Y(r.host_origin), srcZ |-> Z(r.host_origin),
   srcPitch |-> r.host_row_pitch,
   srcHeight |-> Quotient(r.host_slice_pitch, r.host_row_pitch),
   dstMemoryType |-> "CU_MEMORYTYPE_DEVICE", dstBase |-> device_ptr,
   dstXInBytes |-> X(r.buffer_origin), dstY |-> Y(r.buffer_origin), dstZ |-> Z(r.buffer_origin),
   dstPitch |-> r.buffer_row_pitch,
   dstHeight |-> Quotient(r.buffer_slice_pitch, r.buffer_row_pitch)]

\* The descriptor pocl_cuda_copy_rect hands to the driver.
copy_rect_params(src_ptr, dst_ptr, r) ==
  [WidthInBytes |-> X(r.region), Height |-> Y(r.region), Depth |-> Z(r.region),
   srcMemoryType |-> "CU_MEMORYTYPE_DEVICE", srcBase |-> src_ptr,
   srcXInBytes |-> X(r.src_origin), srcY |-> Y(r.src_origin), srcZ |-> Z(r.src_origin),
   srcPitch |-> r.src_row_pitch,
   srcHeight |-> Quotient(r.src_slice_pitch, r.src_row_pitch),
   dstMemoryType |-> "CU_MEMORYTYPE_DEVICE", dstBase |-> dst_ptr,
   dstXInBytes |-> X(r.dst_origin), dstY |-> Y(r.dst_origin), dstZ |-> Z(r.dst_origin),
   dstPitch |-> r.dst_row_pitch,
   dstHeight |-> Quotient(r.dst_slice_pitch, r.dst_row_pitch)]

\* Where the driver finds the byte c of the box on each side of a descriptor:
\* rows are Pitch bytes apart and slices Height rows apart.
SrcAddr(p, c) ==
  p.srcBase
    + ((p.srcZ + Z(c)) * p.srcHeight + p.srcY + Y(c)) * p.srcPitch + p.srcXInBytes + X(c)

DstAddr(p, c) ==
  p.dstBase
    + ((p.dstZ + Z(c)) * p.dstHeight + p.dstY + Y(c)) * p.dstPitch + p.dstXInBytes + X(c)

\* What the driver requires of a descriptor: a row holds the origin and the
\* width, a slice holds the origin and the height.
Accepted(p) ==
  /\ p.srcPitch >= p.WidthInBytes + p.srcXInBytes
  /\ p.dstPitch >= p.WidthInBytes + p.dstXInBytes
  /\ p.srcHeight >= p.Height + p.srcY
  /\ p.dstHeight >= p.Height + p.dstY

\* The destination after the driver has moved the box.
Copy3D(p, src, dst) ==
  LET box == Box(p.WidthInBytes, p.Height, p.Depth)
  IN  [a \in DOMAIN dst |->
         IF \E c \in box : DstAddr(p, c) = a
         THEN src[SrcAddr(p, CHOOSE c \in box : DstAddr(p, c) = a)]
         ELSE dst[a]]

cuMemcpy3D(st, p, fails) ==
  Call(st, "cuMemcpy3D", [kind |-> "CUDA_MEMCPY3D", id |-> 0, params |-> p],
       IF "cuMemcpy3D" \in fails THEN CUDA_ERROR
       ELSE IF ~Accepted(p) THEN CUDA_ERROR_INVALID_VALUE
       ELSE CUDA_SUCCESS)

\* The division by a row pitch of zero is undefined: the build either traps,
\* which ends the process, or goes on with a quotient.
Trapped(pitches, fails) == "SIGFPE" \in fails /\ 0 \in pitches

SIGFPE(st) == [Call(st, "SIGFPE", NULL, "killed") EXCEPT !.aborted = TRUE]

\* What a rectangular transfer does once its arguments are in: the
\* divisions, the driver call, the check of its result.
Transfer3D(p, pitches, fails) ==
  IF Trapped(pitches, fails) THEN SIGFPE(Frame0)
  ELSE CUDA_CHECK(cuMemcpy3D(Frame0, p, fails))

Moved(st) == ~st.aborted /\ Result(st) = CUDA_SUCCESS

RectXfer(op, after) ==
  [op |-> op, offset |-> 0, cb |-> 0, data |-> <<>>, after_write |-> after]

pocl_cuda_read_rect(data, device_ptr, r, fails) ==
  LET params == read_rect_params(0, device_ptr, r)
      st     == Transfer3D(params, {r.host_row_pitch, r.buffer_row_pitch}, fails)
  IN  /\ ~aborted
      /\ hostout' = IF Moved(st) THEN Copy3D(params, devmem, hostout) ELSE hostout
      /\ xfer' = RectXfer("read_rect", xfer.op = "write_rect")
      /\ entry' = Entry("pocl_cuda_read_rect", data)
      /\ CommitCopy(st)
      /\ UNCHANGED <<devmem, hostmem, rect, mapping>>

pocl_cuda_write_rect(data, device_ptr, r, fails) ==
  LET params == write_rect_params(0, device_ptr, r)
      st     == Transfer3D(params, {r.host_row_pitch, r.buffer_row_pitch}, fails)
  IN  /\ ~aborted
      /\ devmem' = IF Moved(st) THEN Copy3D(params, hostmem, devmem) ELSE devmem
      /\ xfer' = RectXfer("write_rect", FALSE)
      /\ entry' = Entry("pocl_cuda_write_rect", data)
      /\ CommitCopy(st)
      /\ UNCHANGED <<hostmem, hostout, rect, mapping>>

pocl_cuda_copy_rect(data, src_ptr, dst_ptr, r, fails) ==
  LET params == copy_rect_params(src_ptr, dst_ptr, r)
      st     == Transfer3D(params, {r.src_row_pitch, r.dst_row_pitch}, fails)
  IN  /\ ~aborted
      /\ devmem' = IF Moved(st) THEN Copy3D(params, devmem, devmem) ELSE devmem
      /\ xfer' = RectXfer("copy_rect", FALSE)
      /\ entry' = Entry("pocl_cuda_copy_rect", data)
      /\ CommitCopy(st)
      /\ UNCHANGED <<hostmem, hostout, rect, mapping>>

Regions3 == (1..MaxRegion) \X (1..MaxRegion) \X (1..MaxRegion)

Origins3 == Origins \X Origins \X Origins

\* The rectangles: any region, any origin on each side, and on each side a
\* row pitch of at least the width and a slice pitch of at least the rows.
Rects ==
  {[region |-> g, buffer_origin |-> bo, host_origin |-> ho,
    buffer_row_pitch |-> X(g) + pad[1],
    buffer_slice_pitch |-> (X(g) + pad[1]) * Y(g) + pad[2],
    host_row_pitch |-> X(g) + pad[3],
    host_slice_pitch |-> (X(g) + pad[3]) * Y(g) + pad[4]] :
     g \in Regions3, bo \in Origins3, ho \in Origins3,
     pad \in Pads \X Pads \X Pads \X Pads}

\* The packed rectangles at the start of both buffers, with the row pitch
\* of one side or of both set to zero.
ZeroPitchRects ==
  {[region |-> g, buffer_origin |-> <<0, 0, 0>>, host_origin |-> <<0, 0, 0>>,
    buffer_row_pitch |-> X(g) * z[1],
    buffer_slice_pitch |-> X(g) * Y(g),
    host_row_pitch |-> X(g) * z[2],
    host_slice_pitch |-> X(g) * Y(g)] :
     g \in Regions3, z \in {<<0, 1>>, <<1, 0>>, <<0, 0>>}}

\* The arguments of pocl_cuda_copy_rect for a rectangle: the device buffer
\* is the source, and its counterpart is a second device buffer.
CopyRectArgs(r) ==
  [region |-> r.region, src_origin |-> r.buffer_origin, dst_origin |-> r.host_origin,
   src_row_pitch |-> r.buffer_row_pitch, src_slice_pitch |-> r.buffer_slice_pitch,
   dst_row_pitch |-> r.host_row_pitch, dst_slice_pitch |-> r.host_slice_pitch]

\* What the environment decides of a rectangular transfer.
RectAPIs == {"cuMemcpy3D", "SIGFPE"}

WriteRect == \E fails \in OneOf(RectAPIs) : pocl_cuda_write_rect(0, 0, rect, fails)

ReadRect == \E fails \in OneOf(RectAPIs) : pocl_cuda_read_rect(0, 0, rect, fails)

CopyRect == \E fails \in OneOf(RectAPIs) :
              pocl_cuda_copy_rect(0, 0, RectBytes, CopyRectArgs(rect), fails)

\* One rectangle; a host buffer whose bytes all differ, and two device
\* buffers, one behind the other, and a second host buffer that hold none
\* of them.
InitRect ==
  /\ arm = FALSE
  /\ flags = {}
  /\ MemIdle
  /\ KernelIdle
  /\ rect \in Rects \cup ZeroPitchRects
  /\ hostmem = [a \in 0..(RectBytes - 1) |-> a + 1]
  /\ devmem = [a \in 0..(2 * RectBytes - 1) |-> 0]
  /\ hostout = [a \in 0..(RectBytes - 1) |-> 0]
  /\ xfer = NoXfer
  /\ mapping = NoMapping
  /\ CtxIdle
  /\ log = <<>>
  /\ ret = "none"
  /\ aborted = FALSE

NextRect == WriteRect \/ ReadRect \/ CopyRect

SpecRect == InitRect /\ [][NextRect]_vars

\* The offset of the byte c of the rectangle in the host buffer.
HostOffset(c) ==
  (Z(rect.host_origin) + Z(c)) * rect.host_slice_pitch
    + (Y(rect.host_origin) + Y(c)) * rect.host_row_pitch
    + X(rect.host_origin) + X(c)

\* C10: once a write-rect and then a read-rect of the same rectangle have
\* returned, every byte of the rectangle in the host buffer read into is
\* the byte of the rectangle in the host buffer written from.
C10_RectRoundTrip ==
  (xfer.op = "read_rect" /\ xfer.after_write /\ ~aborted) =>
    \A c \in Box(X(rect.region), Y(rect.region), Z(rect.region)) :
      hostout[HostOffset(c)] = hostmem[HostOffset(c)]

\* The last entry point was a rectangular transfer.
RectOp == xfer.op \in {"read_rect", "write_rect", "copy_rect"}

\* A side of the rectangle whose slice pitch is no whole number of rows, or
\* whose row pitch is zero.
MalformedPitch(row_pitch, slice_pitch) ==
  row_pitch = 0 \/ slice_pitch % row_pitch # 0

Malformed(r) ==
  \/ MalformedPitch(r.buffer_row_pitch, r.buffer_slice_pitch)
  \/ MalformedPitch(r.host_row_pitch, r.host_slice_pitch)

\* C17: a rectangular transfer whose slice pitch is no whole multiple of
\* its row pitch, or whose row pitch is zero, on either side aborts the
\* process and moves no byte.
C17_MalformedPitchIsFatal ==
  (RectOp /\ Malformed(rect)) =>
    /\ aborted
    /\ \A a \in DOMAIN devmem : devmem[a] = 0
    /\ \A a \in DOMAIN hostout : hostout[a] = 0

\* The byte offset OpenCL gives the byte c of the box on the buffer side of
\* the rectangle, and on its other side.
BufferOffset(c) ==
  (Z(rect.buffer_origin) + Z(c)) * rect.buffer_slice_pitch
    + (Y(rect.buffer_origin) + Y(c)) * rect.buffer_row_pitch
    + X(rect.buffer_origin) + X(c)

\* The last entry point was a rectangular transfer that the driver carried
\* out.
RectMoved ==
  /\ RectOp
  /\ ~aborted
  /\ log[Len(log)].api = "cuMemcpy3D"
  /\ log[Len(log)].res = CUDA_SUCCESS

\* C20: after a rectangular transfer of a rectangle whose row pitches hold
\* the width and whose slice pitches hold the rows, every byte of the box
\* is at the destination's offset
\* (origin_z + z) * slice_pitch + (origin_y + y) * row_pitch + origin_x + x
\* the byte at that offset of the source.
C20_RectAddressing ==
  (RectMoved /\ rect \in Rects) =>
    \A c \in Box(X(rect.region), Y(rect.region), Z(rect.region)) :
      /\ xfer.op = "write_rect" => devmem[BufferOffset(c)] = hostmem[HostOffset(c)]
      /\ xfer.op = "read_rect" => hostout[HostOffset(c)] = devmem[BufferOffset(c)]
      /\ xfer.op = "copy_rect" =>
           devmem[RectBytes + HostOffset(c)] = devmem[BufferOffset(c)]

\* ---------------------------------------------------------------------
\* The copy engine: linear copies between device buffers.

\* The size in bytes of each of the two device buffers of the linear copies.
CopySize == 2

\* The device buffers: one at address 0, the next right behind it.
CopyBases == {0, CopySize}

\* The test pocl_cuda_copy makes before it copies.
SelfCopy_never(src_ptr, dst_ptr) == FALSE

SelfCopy(src_ptr, dst_ptr) == src_ptr = dst_ptr

cuMemcpyDtoD(st, dst, src, fails) ==
  Call(st, "cuMemcpyDtoD", [kind |-> "devaddr", id |-> dst, src |-> src],
       Env("cuMemcpyDtoD", fails))

pocl_cuda_copy(data, src_ptr, src_offset, dst_ptr, dst_offset, cb, fails) ==
  LET dst    == dst_ptr + dst_offset
      src    == src_ptr + src_offset
      elided == SelfCopy(src_ptr, dst_ptr)
      st     == IF elided THEN Frame0
                ELSE CUDA_CHECK(cuMemcpyDtoD(Frame0, dst, src, fails))
      copied == IF elided THEN FALSE ELSE Result(st) = CUDA_SUCCESS
  IN  /\ ~aborted
      /\ devmem' = IF copied THEN CopyIn(devmem, dst, CopyOut(devmem, src, cb))
                   ELSE devmem
      /\ xfer' = [op |-> "copy", src_ptr |-> src_ptr, src_offset |-> src_offset,
                  dst_ptr |-> dst_ptr, dst_offset |-> dst_offset, cb |-> cb,
                  after_write |-> FALSE]
      /\ entry' = Entry("pocl_cuda_copy", data)
      /\ CommitCopy(st)
      /\ UNCHANGED <<hostmem, hostout, rect, mapping>>

\* The ranges of one buffer: an offset and a length.
CopyRanges == {r \in (0..(CopySize - 1)) \X (1..CopySize) : r[1] + r[2] <= CopySize}

\* Two ranges of device memory are the same range or share no byte.
SameOrApart(a, b, cb) == a = b \/ a + cb <= b \/ b + cb <= a

Copy ==
  \E src_ptr \in CopyBases, dst_ptr \in CopyBases, s \in CopyRanges, d \in CopyRanges,
     fails \in OneOf({"cuMemcpyDtoD"}) :
    /\ s[2] = d[2]
    /\ SameOrApart(src_ptr + s[1], dst_ptr + d[1], s[2])
    /\ pocl_cuda_copy(0, src_ptr, s[1], dst_ptr, d[1], s[2], fails)

\* Two device buffers holding anything; nothing else in play.
InitDtoD ==
  /\ arm = FALSE
  /\ flags = {}
  /\ MemIdle
  /\ KernelIdle
  /\ devmem \in [0..(2 * CopySize - 1) -> Bytes]
  /\ hostmem = <<>>
  /\ hostout = <<>>
  /\ rect = NoRect
  /\ xfer = NoXfer
  /\ mapping = NoMapping
  /\ CtxIdle
  /\ log = <<>>
  /\ ret = "none"
  /\ aborted = FALSE

NextDtoD == Copy

SpecDtoD == InitDtoD /\ [][NextDtoD]_vars

\* C11: a linear device-to-device copy whose source address and destination
\* address are the same address leaves every device byte as it was and
\* makes no driver call.
C11_SelfCopyElided ==
  [][(/\ xfer'.op = "copy"
      /\ xfer'.src_ptr + xfer'.src_offset = xfer'.dst_ptr + xfer'.dst_offset)
       => /\ devmem' = devmem
          /\ log' = <<>>
          /\ ~aborted']_vars

\* A copy of the second buffer's last byte onto itself that made no call.
C11_Witness ==
  /\ xfer.op = "copy"
  /\ xfer.src_ptr = CopySize
  /\ xfer.dst_ptr = CopySize
  /\ xfer.src_offset = xfer.dst_offset
  /\ xfer.src_offset = CopySize - 1
  /\ log = <<>>
  /\ ret = "void"

\* C21: a linear device-to-device copy within one buffer (equal base
\* pointers, different offsets, ranges that share no byte) that returns
\* leaves in the destination range the bytes the source range held before
\* the copy.
C21_CopyWithinBuffer ==
  [][(/\ xfer'.op = "copy"
      /\ xfer'.src_ptr = xfer'.dst_ptr
      /\ xfer'.src_offset # xfer'.dst_offset
      /\ \/ xfer'.src_offset + xfer'.cb <= xfer'.dst_offset
         \/ xfer'.dst_offset + xfer'.cb <= xfer'.src_offset
      /\ ~aborted')
       => CopyOut(devmem', xfer'.dst_ptr + xfer'.dst_offset, xfer'.cb)
            = CopyOut(devmem, xfer'.src_ptr + xfer'.src_offset, xfer'.cb)]_vars

\* ---------------------------------------------------------------------
\* Mapping a memory object into host memory and unmapping it.

StagingPtr(n) == [kind |-> "staging", id |-> n]

\* The host pointer the runtime hands to pocl_cuda_map_mem: the host pointer
\* of a use-host-pointer object, no pointer for any other object.
MapHostPtr == IF CL_MEM_USE_HOST_PTR \in flags THEN mem_host_ptr ELSE NULL

\* malloc: a fresh address, or no address when the host has no memory left.
malloc(st, fails) ==
  IF "malloc" \in fails
    THEN [Call(st, "malloc", NULL, "NULL") EXCEPT !.b = NULL]
    ELSE [Call(st, "malloc", StagingPtr(st.next_id), "ok") EXCEPT
            !.b = StagingPtr(st.next_id),
            !.next_id = @ + 1]

\* A transfer between the device and a host address; the driver refuses the
\* null address.
cuMemcpyHost(st, api, host, dev, fails) ==
  Call(st, api, [kind |-> "devaddr", id |-> dev, host |-> host],
       IF api \in fails THEN CUDA_ERROR
       ELSE IF host = NULL THEN CUDA_ERROR_INVALID_VALUE
       ELSE CUDA_SUCCESS)

\* The test pocl_cuda_map_mem makes of the host pointer it is given.
HostVisible_never(host_ptr) == FALSE

HostVisible(host_ptr) == host_ptr # NULL

pocl_cuda_map_mem(data, buf_ptr, offset, size, host_ptr, fails) ==
  LET visible == HostVisible(host_ptr)
      src == buf_ptr + offset
      m   == malloc(Frame0, fails)
      st  == IF visible THEN Frame0
             ELSE CUDA_CHECK(cuMemcpyHost(m, "cuMemcpyDtoH", m.b, src, fails))
  IN  /\ ~aborted
      /\ mapping' = [state |-> "mapped",
                     ptr |-> IF visible THEN host_ptr ELSE st.b,
                     staged |-> ~visible,
                     offset |-> offset, size |-> size,
                     data |-> IF visible \/ st.aborted THEN <<>>
                              ELSE CopyOut(devmem, src, size),
                     dirty |-> FALSE,
                     freed |-> {}]
      /\ next_id' = st.next_id
      /\ entry' = Entry("pocl_cuda_map_mem", data)
      /\ log' = st.log
      /\ aborted' = st.aborted
      /\ ret' = IF st.aborted THEN "aborted" ELSE "ptr"
      /\ current' = st.current
      /\ UNCHANGED <<arm, flags, device_ptrs, mem_host_ptr, heap, destroyed, hist, threads,
                     kernVars, devmem, hostmem, hostout, rect, xfer, stream>>

\* The bytes behind the host address pocl_cuda_unmap_mem is given: the
\* staging buffer, or the start of the application's buffer.
HostBytes(size) ==
  IF mapping.staged THEN SubSeq(mapping.data, 1, size) ELSE CopyOut(hostmem, 0, size)

\* The address the write-back of pocl_cuda_unmap_mem goes to.
UnmapAddr_nooffset(device_start_ptr, offset) == device_start_ptr

UnmapAddr(device_start_ptr, offset) == device_start_ptr + offset

free(st, p) == Call(st, "free", p, "ok")

pocl_cuda_unmap_mem(data, host_ptr, device_start_ptr, offset, size, fails) ==
  LET dst == UnmapAddr(device_start_ptr, offset)
      c   == CUDA_CHECK(cuMemcpyHost(Frame0, "cuMemcpyHtoD", host_ptr, dst, fails))
      st  == IF host_ptr = NULL THEN Frame0
             ELSE IF c.aborted THEN c
             ELSE free(c, host_ptr)
      written == host_ptr # NULL /\ ~c.aborted
  IN  /\ ~aborted
      /\ devmem' = IF written THEN CopyIn(devmem, dst, HostBytes(size)) ELSE devmem
      /\ mapping' = [mapping EXCEPT !.state = "unmapped",
                                    !.freed = IF written THEN @ \cup {host_ptr} ELSE @]
      /\ entry' = Entry("pocl_cuda_unmap_mem", data)
      /\ log' = st.log
      /\ aborted' = st.aborted
      /\ ret' = IF st.aborted THEN "aborted" ELSE "NULL"
      /\ current' = st.current
      /\ UNCHANGED <<memVars, kernVars, hostmem, hostout, rect, xfer, stream>>

\* The host stores into the staging buffer it was given.
HostStore(bytes) ==
  /\ ~aborted
  /\ mapping.state = "mapped"
  /\ mapping.staged
  /\ mapping' = [mapping EXCEPT !.dirty = TRUE, !.data = bytes]
  /\ UNCHANGED <<memVars, kernVars, devmem, hostmem, hostout, rect, xfer, ctxVars,
                 log, ret, aborted>>

\* The memory object is resident on the device.
Resident(device) == device_ptrs[device].mem_ptr # NULL

AllocOnce == hist = <<>> /\ pocl_cuda_alloc_mem_obj(0, AppHostPtr, {})

Map ==
  /\ Resident(0)
  /\ mapping.state = "none"
  /\ \E r \in Ranges, fails \in OneOf({"malloc", "cuMemcpyDtoH"}) :
       pocl_cuda_map_mem(0, 0, r[1], r[2], MapHostPtr, fails)

Store == \E bytes \in [1..mapping.size -> Bytes] : HostStore(bytes)

Unmap ==
  /\ mapping.state = "mapped"
  /\ \E fails \in OneOf({"cuMemcpyHtoD"}) :
       pocl_cuda_unmap_mem(0, mapping.ptr, 0, mapping.offset, mapping.size, fails)

\* A memory object of any policy, not yet resident, whose device bytes are
\* anything; a use-host-pointer object's host buffer holds the same bytes.
InitMap ==
  /\ arm \in BOOLEAN
  /\ flags \in Policies
  /\ MemIdle
  /\ KernelIdle
  /\ devmem \in [0..(BufSize - 1) -> Bytes]
  /\ hostmem = IF CL_MEM_USE_HOST_PTR \in flags THEN devmem ELSE <<>>
  /\ hostout = <<>>
  /\ rect = NoRect
  /\ xfer = NoXfer
  /\ mapping = NoMapping
  /\ CtxIdle
  /\ log = <<>>
  /\ ret = "none"
  /\ aborted = FALSE

NextMap == AllocOnce \/ Map \/ Store \/ Unmap

SpecMap == InitMap /\ [][NextMap]_vars

\* C12: a mapping of a use-host-pointer object is the host address given at
\* allocation and makes no transfer; a mapping of an object of any other
\* policy is a fresh staging address, none of the object's host pointers,
\* that holds the device bytes of the mapped range.
C12_MapReturns ==
  (mapping.state = "mapped" /\ ~mapping.dirty /\ ~aborted) =>
    IF CL_MEM_USE_HOST_PTR \in flags
      THEN /\ mapping.ptr = AppHostPtr
           /\ mapping.ptr # NULL
           /\ log = <<>>
      ELSE /\ mapping.ptr.kind = "staging"
           /\ mapping.ptr \notin {mem_host_ptr, AppHostPtr, NULL}
           /\ mapping.ptr \notin {e.ptr : e \in heap}
           /\ mapping.data = CopyOut(devmem, mapping.offset, mapping.size)

\* A mapping of the middle of an alloc-host-pointer object: a staging
\* address, though the object has page-locked host memory of its own.
C12_Witness ==
  /\ mapping.state = "mapped"
  /\ ~mapping.dirty
  /\ ~aborted
  /\ flags = {CL_MEM_ALLOC_HOST_PTR}
  /\ mem_host_ptr.kind = "pinned"
  /\ mapping.staged
  /\ mapping.offset = 1
  /\ mapping.data = <<1, 0>>

\* C13: an unmap of a staged mapping that returns has put the staging
\* buffer's bytes at [offset, offset + size) of the device buffer, has left
\* the other device bytes as they were, and has freed the staging buffer
\* after the write-back succeeded, and nothing else.
C13_UnmapWritesBack ==
  [][(/\ mapping.state = "mapped"
      /\ mapping.staged
      /\ mapping'.state = "unmapped"
      /\ ~aborted')
       => /\ CopyOut(devmem', mapping.offset, mapping.size) = mapping.data
          /\ \A a \in DOMAIN devmem :
               ~InRange(a, mapping.offset, mapping.size) => devmem'[a] = devmem[a]
          /\ Apis(log') = <<"cuMemcpyHtoD", "free">>
          /\ log'[1].res = CUDA_SUCCESS
          /\ log'[2].arg = mapping.ptr
          /\ mapping'.freed = {mapping.ptr}]_vars

\* An unmap that returned, of a staged mapping of the middle of the buffer
\* into which the host had stored.
C13_Witness ==
  /\ mapping.state = "unmapped"
  /\ mapping.staged
  /\ mapping.dirty
  /\ ~aborted
  /\ mapping.offset = 1
  /\ mapping.offset + mapping.size < BufSize
  /\ mapping.data = <<1, 0>>
  /\ CopyOut(devmem, 1, 2) = <<1, 0>>
  /\ mapping.freed = {mapping.ptr}

\* C22: an unmap of a mapping for which pocl_cuda_map_mem returned the host
\* pointer it was given frees nothing and makes no copy to the device.
C22_UnmapKeepsHostPointer ==
  (mapping.state = "unmapped" /\ ~mapping.staged) =>
    /\ mapping.freed = {}
    /\ \A i \in DOMAIN log : log[i].api \notin {"cuMemcpyHtoD", "free"}

\* ---------------------------------------------------------------------
\* pocl_cuda_join and the device's default stream.

\* cuStreamSynchronize (0) returns once the default stream of the context
\* that is current holds no unfinished work.
cuStreamSynchronize_nowait(st, fails) ==
  Call(st, "cuStreamSynchronize", NULL, Env("cuStreamSynchronize", fails))

cuStreamSynchronize(st, fails) ==
  IF "cuStreamSynchronize" \in fails
    THEN Call(st, "cuStreamSynchronize", NULL, CUDA_ERROR)
    ELSE [Call(st, "cuStreamSynchronize", NULL, CUDA_SUCCESS) EXCEPT
            !.stream = @ \ {st.current}]

pocl_cuda_join(device, fails) ==
  LET s0 == cuCtxSetCurrent(Frame0, device, fails)
      s1 == CUDA_CHECK(cuStreamSynchronize(s0, fails))
  IN  /\ ~aborted
      /\ stream' = s1.stream
      /\ current' = s1.current
      /\ entry' = Entry("pocl_cuda_join", device)
      /\ log' = s1.log
      /\ aborted' = s1.aborted
      /\ ret' = IF s1.aborted THEN "ABORTED" ELSE "void"
      /\ UNCHANGED <<memVars, kernVars, copyVars>>

\* The device finishes the kernels of one of its streams.
KernelsFinish(c) ==
  /\ c \in stream
  /\ stream' = stream \ {c}
  /\ UNCHANGED <<memVars, kernVars, copyVars, current, entry, log, ret, aborted>>

\* A launch command of the kernel without arguments.
PlainLaunch == [type |-> CL_COMMAND_NDRANGE_KERNEL, arguments |-> <<>>]

SubmitLaunch == \E device \in Devices, fails \in OneOf({"cuCtxSetCurrent", "cuLaunchKernel"}) :
                  pocl_cuda_submit(PlainLaunch, device, fails)

Join == \E device \in Devices, fails \in OneOf({"cuCtxSetCurrent", "cuStreamSynchronize"}) :
          pocl_cuda_join(device, fails)

Finish == \E c \in stream : KernelsFinish(c)

\* A kernel without arguments, its .ptx on disk, and idle devices.
InitJoin ==
  /\ InitKernelWith({<<>>}, {0})
  /\ node = NoNode
  /\ CtxIdle

NextJoin == SubmitLaunch \/ Join \/ Finish

SpecJoin == InitJoin /\ [][NextJoin]_vars

Unsupported(i) == arg_info[i].type \in {POCL_ARG_TYPE_IMAGE, POCL_ARG_TYPE_SAMPLER}

\* C16: once a launch command of a kernel with an image or a sampler
\* argument has been submitted, the process has aborted, on reaching the
\* first such argument in the marshaling loop; the command's event was set
\* to submitted and to nothing further, and no launch was issued.
C16_UnsupportedArgumentIsFatal ==
  (/\ entry.name = "pocl_cuda_submit"
   /\ node.type = CL_COMMAND_NDRANGE_KERNEL
   /\ \E i \in DOMAIN arg_info : Unsupported(i))
    => /\ aborted
       /\ ret = "ABORTED"
       /\ log[Len(log)].api = "POCL_ABORT"
       /\ log[Len(log)].res = "Unhandled argument type for CUDA"
       /\ log[Len(log) - 1].api = "marshal"
       /\ log[Len(log) - 1].arg = Arg(Min({i \in DOMAIN arg_info : Unsupported(i)}))
       /\ EventStatuses(log) = <<"submitted">>
       /\ event = "submitted"
       /\ Positions(log, IsLaunch) = {}
       /\ ~launch.issued

\* The abort, for a kernel whose second argument is a sampler and whose
\* first is a local pointer that was marshaled.
C16_Witness ==
  /\ entry.name = "pocl_cuda_submit"
  /\ aborted
  /\ Len(arg_info) = 2
  /\ arg_info[1] = [type |-> POCL_ARG_TYPE_POINTER, is_local |-> TRUE]
  /\ arg_info[2].type = POCL_ARG_TYPE_SAMPLER
  /\ Cardinality(Positions(log, IsMarshal)) = 2

(***************************************************************************)
(* Two threads inside pocl_cuda_alloc_mem_obj for one memory object, with  *)
(* no lock around the calls (SpecRace).  The code takes no lock and uses   *)
(* no atomic access: each read and each store of a slot is a step of its   *)
(* own, and the steps of the two threads interleave in any order.          *)
(***************************************************************************)
Threads == {1, 2}

\* A thread that is about to call pocl_cuda_alloc_mem_obj for `device`.
Calling(device) ==
  [pc |-> "call", device |-> device, b |-> NULL, current |-> Context(MaxDev),
   ret |-> "RUNNING", stored |-> FALSE]

\* The frame of the thread: the object as it is now, and the context that
\* is current on this thread.
FrameOf(t) == [Frame0 EXCEPT !.current = threads[t].current]

\* What a step of a thread leaves behind.
CommitRace(t, st, slots, next) ==
  /\ threads' = [threads EXCEPT ![t] = next]
  /\ device_ptrs' = slots
  /\ mem_host_ptr' = st.mem_host_ptr
  /\ heap' = st.heap
  /\ next_id' = st.next_id
  /\ log' = st.log
  /\ aborted' = st.aborted
  /\ ret' = Returned(st)
  /\ entry' = Entry("pocl_cuda_alloc_mem_obj", threads[t].device)
  /\ UNCHANGED <<arm, flags, destroyed, hist, kernVars, copyVars, current, stream>>

\* cuCtxSetCurrent, and the test of the region's slot.
TestSlot(t, fails) ==
  LET me == threads[t]
      st == cuCtxSetCurrent(FrameOf(t), me.device, fails)
  IN  /\ ~aborted
      /\ me.pc = "call"
      /\ CommitRace(t, st, device_ptrs,
                    [me EXCEPT !.pc = IF AlreadyResident(me.device)
                                        THEN "copy" ELSE "provision",
                               !.current = st.current])

\* The driver calls of the branch, which leave the pointer in the local b.
ProvisionLocal(t, fails) ==
  LET me == threads[t]
      st == Provision(FrameOf(t), AppHostPtr, fails)
  IN  /\ ~aborted
      /\ me.pc = "provision"
      /\ CommitRace(t, st, device_ptrs,
                    [me EXCEPT !.pc = IF Live(st) THEN "store" ELSE "done",
                               !.b = st.b,
                               !.ret = Returned(st)])

\* The store of b into the region's slot.
StoreSlot(t) ==
  LET me == threads[t]
  IN  /\ ~aborted
      /\ me.pc = "store"
      /\ CommitRace(t, FrameOf(t),
                    StoreRegionSlot(device_ptrs, global_mem_id(me.device), me.b),
                    [me EXCEPT !.pc = "copy", !.stored = TRUE])

\* The copy of the region's slot into the device's own slot, and the return.
CopySlot(t) ==
  LET me == threads[t]
  IN  /\ ~aborted
      /\ me.pc = "copy"
      /\ CommitRace(t, FrameOf(t), CopyToDeviceSlot(device_ptrs, me.device),
                    [me EXCEPT !.pc = "done", !.ret = CL_SUCCESS])

Test == \E t \in Threads, fails \in OneOf({"cuCtxSetCurrent"}) : TestSlot(t, fails)

Provide == \E t \in Threads, fails \in OneOf(AllocAPIs \ {"cuCtxSetCurrent"}) :
             ProvisionLocal(t, fails)

StorePointer == \E t \in Threads : StoreSlot(t)

CopyPointer == \E t \in Threads : CopySlot(t)

\* The two threads call for one device, or for two devices of one region.
InitRace ==
  /\ arm \in BOOLEAN
  /\ flags \in Policies
  /\ device_ptrs = [d \in Devices |-> [mem_ptr |-> NULL, global_mem_id |-> 0]]
  /\ mem_host_ptr = IF CL_MEM_USE_HOST_PTR \in flags THEN HostPtr(1) ELSE NULL
  /\ heap = {}
  /\ next_id = 1
  /\ destroyed = FALSE
  /\ hist = <<>>
  /\ threads \in {th \in [Threads -> {Calling(d) : d \in Devices}] :
                    global_mem_id(th[1].device) = global_mem_id(th[2].device)}
  /\ KernelIdle
  /\ CopyIdle
  /\ CtxIdle
  /\ log = <<>>
  /\ ret = "none"
  /\ aborted = FALSE

NextRace == Test \/ Provide \/ StorePointer \/ CopyPointer

SpecRace == InitRace /\ [][NextRace]_vars

\* Both calls have returned CL_SUCCESS.
BothReturned ==
  /\ ~aborted
  /\ \A t \in Threads : threads[t].pc = "done" /\ threads[t].ret = CL_SUCCESS

\* The pointers the threads stored into the region's slot.
StoredPointers == {threads[t].b : t \in {u \in Threads : threads[u].stored}}

\* Some slot of the object refers to the allocation.
Referenced(e) ==
  \E d \in Devices : device_ptrs[d].mem_ptr \in {e.ptr, DevicePointerOf(e.ptr)}

\* C19: when two unserialized calls of pocl_cuda_alloc_mem_obj for one
\* not-yet-resident object have both returned, the region's slot was written
\* with one pointer only, the slots of the calling devices hold that
\* pointer, and every allocation made is referred to by some slot.
C19_RaceTolerantAllocation ==
  BothReturned =>
    /\ Cardinality(StoredPointers) <= 1
    /\ \A t \in Threads :
         device_ptrs[threads[t].device].mem_ptr
           = device_ptrs[global_mem_id(threads[t].device)].mem_ptr
    /\ \A e \in heap : Referenced(e)

====
